---- MODULE Spec2Model ----
(***************************************************************************)
(* Summary extraction from agent output: the three bundled parsers         *)
(* (claude_parser.py, codex_parser.py, opencode_parser.py).                *)
(*                                                                         *)
(* A Python str is a sequence of tokens.  A token is one lexeme of the     *)
(* text: a brace, a bracket, a colon, a comma, a quote at escape depth 0,  *)
(* 1 or 2 ("q0" is the character ", "q1" the two characters \" and "q2"    *)
(* the four characters \\\"), a newline at escape depth 0, 1 or 2 ("n0" is *)
(* the newline character, "n1" the two characters \n, "n2" the three       *)
(* characters \\n), a space, a fence of three backticks ("fence"), a number, null, or a word.  *)
(* A Python value is a record tagged by its type in field t, with its      *)
(* payload in a field named after the type.                                *)
(***************************************************************************)
EXTENDS Integers, Sequences, FiniteSets, TLC

VARIABLES dialect, output, lines, arg, pc, i,
          last_assistant_content, last_message_content, last_summary, result

vars == <<dialect, output, lines, arg, pc, i,
          last_assistant_content, last_message_content, last_summary, result>>

(***************************************************************************)
(* Python values                                                           *)
(***************************************************************************)
None == [t |-> "none"]

Str(s) == [t |-> "str", s |-> s]

Num(n) == [t |-> "num", n |-> n]

List(s) == [t |-> "list", items |-> s]

Dict(f) == [t |-> "dict", map |-> f]

\* an exception that propagates out of the function
Raise == [t |-> "raise"]

\* the function has not returned yet
Pending == [t |-> "pending"]

EmptyMap == [k \in {} |-> None]

IsStr(x) == x.t = "str"

IsDict(x) == x.t = "dict"

IsList(x) == x.t = "list"

\* bool(x)
Truthy(x) ==
  CASE x.t = "none" -> FALSE
    [] x.t = "str" -> x.s # <<>>
    [] x.t = "num" -> x.n # 0
    [] x.t = "list" -> x.items # <<>>
    [] x.t = "dict" -> DOMAIN x.map # {}
    [] OTHER -> TRUE

\* key in d, for a dict d and a one-word key
HasKey(d, key) == <<key>> \in DOMAIN d.map

\* d.get(key) and d.get(key, default)
Get(d, key, default) == IF HasKey(d, key) THEN d.map[<<key>>] ELSE default

\* d[key] = val
SetKey(d, key, val) ==
  Dict([k \in DOMAIN d.map \cup {<<key>>} |-> IF k = <<key>> THEN val ELSE d.map[k]])

(***************************************************************************)
(* str methods                                                             *)
(***************************************************************************)
Ws == {" ", "n0"}

\* s[a..b], both ends included
Slice(s, a, b) == SubSeq(s, a, b)

\* Op applied to the value of e, with e evaluated once: the TLA+ rendering
\* of a local variable that is assigned once and read several times
Bind(e, Op(_)) == CHOOSE y \in {Op(x) : x \in {e}} : TRUE

\* the first position at or after p that holds no whitespace (Len(s) + 1
\* when there is none), and the last one at or before p (0 when none)
RECURSIVE SkipWs(_, _)
SkipWs(s, p) ==
  IF p > Len(s) \/ s[p] \notin Ws THEN p ELSE SkipWs(s, p + 1)

RECURSIVE SkipWsBack(_, _)
SkipWsBack(s, p) ==
  IF p < 1 \/ s[p] \notin Ws THEN p ELSE SkipWsBack(s, p - 1)

\* s.strip()
Strip(s) == Bind(s, LAMBDA v : Slice(v, SkipWs(v, 1), SkipWsBack(v, Len(v))))

\* the first position at or after p that holds c, 0 when there is none
RECURSIVE FindFrom(_, _, _)
FindFrom(s, c, p) ==
  IF p > Len(s) THEN 0 ELSE IF s[p] = c THEN p ELSE FindFrom(s, c, p + 1)

\* the last position at or before p that holds c, 0 when there is none
RECURSIVE FindBack(_, _, _)
FindBack(s, c, p) ==
  IF p < 1 THEN 0 ELSE IF s[p] = c THEN p ELSE FindBack(s, c, p - 1)

\* s.find(c) and s.rfind(c), 1-based, 0 when c is not in s
Find(s, c) == FindFrom(s, c, 1)

RFind(s, c) == FindBack(s, c, Len(s))

\* s.split('\n')
RECURSIVE Split(_)
Split(s) ==
  Bind(s, LAMBDA v :
    Bind(Find(v, "n0"), LAMBDA p :
      IF p = 0 THEN <<v>>
      ELSE <<Slice(v, 1, p - 1)>> \o Split(Slice(v, p + 1, Len(v)))))

\* "\n".join(parts) for a sequence of token sequences
RECURSIVE Join(_)
Join(parts) ==
  IF parts = <<>> THEN <<>>
  ELSE IF Len(parts) = 1 THEN parts[1]
  ELSE parts[1] \o <<"n0">> \o Join(Tail(parts))

(***************************************************************************)
(* json.loads                                                              *)
(***************************************************************************)
NumTokens == {"0", "42"}

NumOf(tok) == IF tok = "0" THEN 0 ELSE 42

\* one level of backslash escapes removed from a token inside a string literal
Unescape(tok) ==
  CASE tok = "q1" -> "q0"
    [] tok = "q2" -> "q1"
    [] tok = "n1" -> "n0"
    [] tok = "n2" -> "n1"
    [] OTHER -> tok

Fail == [ok |-> FALSE, val |-> None, p |-> 0]

Ok(val, next) == [ok |-> TRUE, val |-> val, p |-> next]

\* a string literal opening at s[p] = "q0"; a raw newline inside it is a
\* control character, which the decoder rejects
ParseString(s, p) ==
  Bind(FindFrom(s, "q0", p + 1), LAMBDA e :
    IF e = 0 THEN Fail
    ELSE IF \E q \in (p + 1)..(e - 1) : s[q] = "n0" THEN Fail
    ELSE Ok(Str([k \in 1..(e - p - 1) |-> Unescape(s[p + k])]), e + 1))

RECURSIVE ParseValue(_, _), ParseMembers(_, _, _), ParseItems(_, _, _)

\* the JSON value that starts at the first position at or after from that
\* holds no whitespace
ParseValue(s, from) ==
  Bind(SkipWs(s, from), LAMBDA p :
    IF p > Len(s) THEN Fail
    ELSE CASE s[p] = "q0" -> ParseString(s, p)
           [] s[p] = "{" ->
                Bind(SkipWs(s, p + 1), LAMBDA q :
                  IF q <= Len(s) /\ s[q] = "}" THEN Ok(Dict(EmptyMap), q + 1)
                  ELSE ParseMembers(s, q, EmptyMap))
           [] s[p] = "[" ->
                Bind(SkipWs(s, p + 1), LAMBDA q :
                  IF q <= Len(s) /\ s[q] = "]" THEN Ok(List(<<>>), q + 1)
                  ELSE ParseItems(s, q, <<>>))
           [] s[p] \in NumTokens -> Ok(Num(NumOf(s[p])), p + 1)
           [] s[p] = "null" -> Ok(None, p + 1)
           [] OTHER -> Fail)

\* the members of an object from s[p] on, acc holding those read so far; a
\* repeated key keeps the last value
ParseMembers(s, p, acc) ==
  IF p > Len(s) \/ s[p] # "q0" THEN Fail
  ELSE Bind(ParseString(s, p), LAMBDA key :
    IF ~key.ok THEN Fail
    ELSE Bind(SkipWs(s, key.p), LAMBDA c :
      IF c > Len(s) \/ s[c] # ":" THEN Fail
      ELSE Bind(ParseValue(s, c + 1), LAMBDA val :
        IF ~val.ok THEN Fail
        ELSE Bind([k \in DOMAIN acc \cup {key.val.s} |->
                     IF k = key.val.s THEN val.val ELSE acc[k]], LAMBDA more :
               Bind(SkipWs(s, val.p), LAMBDA n :
                 IF n > Len(s) THEN Fail
                 ELSE IF s[n] = ","
                 THEN Bind(SkipWs(s, n + 1), LAMBDA at : ParseMembers(s, at, more))
                 ELSE IF s[n] = "}" THEN Ok(Dict(more), n + 1)
                 ELSE Fail)))))

\* the items of an array from s[p] on, acc holding those read so far
ParseItems(s, p, acc) ==
  Bind(ParseValue(s, p), LAMBDA val :
    IF ~val.ok THEN Fail
    ELSE Bind(Append(acc, val.val), LAMBDA more :
           Bind(SkipWs(s, val.p), LAMBDA n :
             IF n > Len(s) THEN Fail
             ELSE IF s[n] = ","
             THEN Bind(SkipWs(s, n + 1), LAMBDA at : ParseItems(s, at, more))
             ELSE IF s[n] = "]" THEN Ok(List(more), n + 1)
             ELSE Fail)))

\* json.loads(x): Raise stands for the TypeError of a non-str argument and
\* for the JSONDecodeError of a text that is not one JSON value
json_loads(x) ==
  Bind(x, LAMBDA text :
    IF ~IsStr(text) THEN Raise
    ELSE Bind(ParseValue(text.s, 1), LAMBDA r :
           IF r.ok /\ SkipWs(text.s, r.p) = Len(text.s) + 1 THEN r.val ELSE Raise))

(***************************************************************************)
(* Text Scanner: extract_json_block, one copy per parser                   *)
(***************************************************************************)
\* "```json" in text: the fence token followed by the word json
HasJsonFence(s) == \E k \in 1..(Len(s) - 1) : s[k] = "fence" /\ s[k + 1] = "json"

\* "```" in text
HasFence(s) == \E k \in 1..Len(s) : s[k] = "fence"

\* "\\n" in text or "\\\"" in text: a backslash followed by n or by a quote
HasEscape(s) == \E k \in 1..Len(s) : s[k] \in {"n1", "n2", "q1", "q2"}

\* the loop `for i in range(start, len(text))` from position k on, with
\* brace_count as it stands before text[k] is read: the position of the
\* closing brace that brings the count to zero, 0 when there is none
RECURSIVE BraceScan(_, _, _)
BraceScan(s, k, brace_count) ==
  IF k > Len(s) THEN 0
  ELSE IF s[k] = "{" THEN BraceScan(s, k + 1, brace_count + 1)
  ELSE IF s[k] = "}"
  THEN (IF brace_count - 1 = 0 THEN k ELSE BraceScan(s, k + 1, brace_count - 1))
  ELSE BraceScan(s, k + 1, brace_count)

\* the body of extract_json_block after text.strip() and the unescape attempt:
\* the two fence rules, the whole-string rule and the brace-counting scan;
\* absent is what the copy returns when it finds nothing
ScanBlock(s, absent) ==
  LET start == Find(s, "{")
      end == RFind(s, "}")
      close == BraceScan(s, start, 0)
  IN IF HasJsonFence(s) /\ start >= 1 /\ end > start THEN Str(Slice(s, start, end))
     ELSE IF HasFence(s) /\ start >= 1 /\ end > start THEN Str(Slice(s, start, end))
     ELSE IF s # <<>> /\ s[1] = "{" /\ s[Len(s)] = "}" THEN Str(s)
     ELSE IF start >= 1 /\ close >= 1 THEN Str(Slice(s, start, close))
     ELSE absent

\* codex_parser.py: a non-str argument has no strip()
codex_extract_json_block(text) ==
  IF ~IsStr(text) THEN Raise
  ELSE Bind(Strip(text.s), LAMBDA stripped : ScanBlock(stripped, None))

\* opencode_parser.py: the same, returning "" when nothing is found
opencode_extract_json_block(text) ==
  IF ~IsStr(text) THEN Raise
  ELSE Bind(Strip(text.s), LAMBDA stripped : ScanBlock(stripped, Str(<<>>)))

\* claude_parser.py: text that holds an escape is first given to json.loads
\* and replaced by whatever value that returns; a value that is not a str
\* has no startswith()
claude_extract_json_block(text) ==
  IF ~IsStr(text) THEN Raise
  ELSE Bind(Str(Strip(text.s)), LAMBDA stripped :
         Bind(IF HasEscape(stripped.s) THEN json_loads(stripped) ELSE Raise,
              LAMBDA loaded :
           Bind(IF loaded # Raise THEN loaded ELSE stripped, LAMBDA unescaped :
             IF ~IsStr(unescaped) THEN Raise ELSE ScanBlock(unescaped.s, None))))

(***************************************************************************)
(* Content Normalizer: extract_text_from_message (claude and codex copies  *)
(* are the same text)                                                      *)
(***************************************************************************)
\* the parts kept from a list content, in list order
RECURSIVE Parts(_)
Parts(items) ==
  IF items = <<>> THEN <<>>
  ELSE LET item == items[1]
           kept == IF IsStr(item) /\ Truthy(item) THEN <<item>>
                   ELSE IF IsDict(item) /\ HasKey(item, "text")
                           /\ Truthy(Get(item, "text", None))
                   THEN <<Get(item, "text", None)>>
                   ELSE <<>>
       IN kept \o Parts(Tail(items))

extract_text_from_message(msg) ==
  IF ~IsDict(msg) THEN Raise
  ELSE IF HasKey(msg, "message") /\ ~IsDict(Get(msg, "message", None)) THEN Raise
  ELSE LET content == IF HasKey(msg, "message")
                      THEN Get(Get(msg, "message", None), "content", Str(<<>>))
                      ELSE Get(msg, "content", Str(<<>>))
       IN IF IsStr(content) THEN content
          ELSE IF IsDict(content)
          THEN (IF HasKey(content, "text") THEN Get(content, "text", None)
                ELSE Str(<<>>))
          ELSE IF IsList(content)
          THEN LET parts == Parts(content.items)
               IN IF \E k \in 1..Len(parts) : ~IsStr(parts[k]) THEN Raise
                  ELSE Str(Join([k \in 1..Len(parts) |-> parts[k].s]))
          ELSE Str(<<>>)

(***************************************************************************)
(* Summary Validator: parse_summary_from_line / parse_summary_from_raw     *)
(***************************************************************************)
SummaryKeys == {"task_id", "status", "summary", "files", "blockers"}

\* Normalized with a slip: only a task_id that is present and null is replaced
Normalized_NullOnly(raw) ==
  IF IsDict(raw) /\ HasKey(raw, "task_id") /\ Get(raw, "task_id", None) = None
  THEN SetKey(raw, "task_id", Str(<<>>))
  ELSE raw

\* the argument after the call: a dict that passed the key check has a
\* missing or null task_id set to ""
Normalized(raw) ==
  IF IsDict(raw) /\ (\E key \in SummaryKeys : HasKey(raw, key))
     /\ Get(raw, "task_id", None) = None
  THEN SetKey(raw, "task_id", Str(<<>>))
  ELSE raw

\* `key in raw` for the five keys when raw is not a dict: substring test on
\* a str, element test on a list, TypeError on anything else
KeyTest(raw) ==
  CASE IsStr(raw) -> \E k \in 1..Len(raw.s) : raw.s[k] \in SummaryKeys
    [] IsList(raw) -> \E k \in 1..Len(raw.items) :
                         \E key \in SummaryKeys : raw.items[k] = Str(<<key>>)
    [] OTHER -> FALSE

\* ValidatorBody with a slip: the emptiness check leaves out files and blockers
ValidatorBody_NoLists(raw) ==
  IF IsDict(raw)
  THEN IF ~(\E key \in SummaryKeys : HasKey(raw, key)) THEN None
       ELSE LET line == Normalized(raw)
            IN IF ~Truthy(Get(line, "task_id", None))
                  /\ ~Truthy(Get(line, "status", None))
                  /\ ~Truthy(Get(line, "summary", None))
               THEN None
               ELSE line
  ELSE IF IsStr(raw) \/ IsList(raw)
  THEN (IF KeyTest(raw) THEN Raise ELSE None)
  ELSE Raise

ValidatorBody(raw) ==
  IF IsDict(raw)
  THEN IF ~(\E key \in SummaryKeys : HasKey(raw, key)) THEN None
       ELSE LET line == Normalized(raw)
            IN IF ~Truthy(Get(line, "task_id", None))
                  /\ ~Truthy(Get(line, "status", None))
                  /\ ~Truthy(Get(line, "summary", None))
                  /\ ~Truthy(Get(line, "files", None))
                  /\ ~Truthy(Get(line, "blockers", None))
               THEN None
               ELSE line
  ELSE IF IsStr(raw) \/ IsList(raw)
  THEN (IF KeyTest(raw) THEN Raise ELSE None)
  ELSE Raise

parse_summary_from_line(line) == ValidatorBody(line)

codex_parse_summary_from_raw(raw) == ValidatorBody(raw)

opencode_parse_summary_from_raw(raw) == ValidatorBody(raw)

(***************************************************************************)
(* Steps shared by the adapters                                            *)
(***************************************************************************)
\* output.strip().split('\n')
Lines(out) == Split(Strip(out))

\* `if not line.strip(): continue`
IsBlank(line) == Strip(line) = <<>>

\* try: obj = json.loads(json_str); summary = validate(obj) ... except: pass
\* given the validator's verdict on the decoded block: the accepted summary,
\* or None when decoding or validation raised or rejected
Accepted(verdict) ==
  Bind(verdict, LAMBDA summary :
    IF summary # Raise /\ Truthy(summary) THEN summary ELSE None)

\* a += b
Plus(a, b) ==
  CASE IsStr(a) /\ IsStr(b) -> Str(a.s \o b.s)
    [] a.t = "num" /\ b.t = "num" -> Num(a.n + b.n)
    [] IsList(a) /\ IsList(b) -> List(a.items \o b.items)
    [] OTHER -> Raise

(***************************************************************************)
(* Adapter A: parse_claude_stream_json                                     *)
(***************************************************************************)
\* the block of an assistant_message content after the double-decode attempt
ClaudeContent(content) ==
  Bind(json_loads(content), LAMBDA unescaped :
    IF unescaped # Raise THEN unescaped ELSE content)

\* the assistant_message branch of the loop body on the decoded line: ret is
\* the object returned by the short-circuit, Raise when extract_json_block
\* raises, Pending when the loop goes on; lac is last_assistant_content
ClaudeAssistant(data, lac) ==
  Bind(Get(data, "content", Str(<<>>)), LAMBDA raw :
    IF ~(Get(data, "type", None) = Str(<<"assistant_message">>) /\ Truthy(raw))
    THEN [ret |-> Pending, lac |-> lac]
    ELSE Bind(ClaudeContent(raw), LAMBDA content :
           Bind(claude_extract_json_block(content), LAMBDA json_str :
             IF json_str = Raise THEN [ret |-> Raise, lac |-> lac]
             ELSE Bind(IF Truthy(json_str) THEN json_loads(json_str) ELSE Raise,
                       LAMBDA obj :
                    IF obj # Raise /\ IsDict(obj)
                       /\ HasKey(obj, "task_id") /\ HasKey(obj, "status")
                    THEN [ret |-> obj, lac |-> lac]
                    ELSE [ret |-> Pending,
                          lac |-> IF Truthy(lac) THEN lac ELSE content]))))

\* the message branch and the content_block_delta branch on the decoded
\* line: lmc is last_message_content, ret is Raise when
\* extract_text_from_message or the += raises
ClaudeMessage(data, lmc) ==
  Bind(IF HasKey(data, "message") THEN extract_text_from_message(data)
       ELSE Str(<<>>), LAMBDA text :
    IF text = Raise THEN [ret |-> Raise, lmc |-> lmc]
    ELSE Bind(IF Truthy(text) THEN text ELSE lmc, LAMBDA lmc1 :
           Bind(Get(data, "delta", Dict(EmptyMap)), LAMBDA delta :
             Bind(IF Get(data, "type", None) = Str(<<"content_block_delta">>)
                     /\ IsDict(delta) /\ HasKey(delta, "text")
                  THEN Plus(lmc1, Get(delta, "text", None))
                  ELSE lmc1, LAMBDA lmc2 :
               IF lmc2 = Raise THEN [ret |-> Raise, lmc |-> lmc1]
               ELSE [ret |-> Pending, lmc |-> lmc2]))))

\* one pass of the loop body over a non-blank line: ret is Pending when the
\* loop goes on, the returned object on the short-circuit, Raise when an
\* exception leaves the function
ClaudeLineStep(line, lac, lmc) ==
  Bind(json_loads(Str(line)), LAMBDA data :
    IF data = Raise THEN [ret |-> Pending, lac |-> lac, lmc |-> lmc]
    ELSE IF ~IsDict(data) THEN [ret |-> Raise, lac |-> lac, lmc |-> lmc]
    ELSE Bind(ClaudeAssistant(data, lac), LAMBDA a :
           IF a.ret # Pending THEN [ret |-> a.ret, lac |-> lac, lmc |-> lmc]
           ELSE Bind(ClaudeMessage(data, lmc), LAMBDA m :
                  [ret |-> m.ret, lac |-> a.lac, lmc |-> m.lmc])))

\* one of the two fallbacks after the loop: Raise when extract_json_block
\* raises, else the validated summary or None
ClaudeFallback(content) ==
  IF ~Truthy(content) THEN None
  ELSE Bind(claude_extract_json_block(content), LAMBDA json_str :
         IF json_str = Raise THEN Raise
         ELSE IF ~Truthy(json_str) THEN None
         ELSE Bind(json_loads(json_str), LAMBDA summary :
                IF summary = Raise THEN None
                ELSE Accepted(parse_summary_from_line(summary))))

\* the code after the loop: assistant content first, then message content
ClaudeAfterLoop(lac, lmc) ==
  Bind(ClaudeFallback(lac), LAMBDA first :
    IF first # None THEN first ELSE ClaudeFallback(lmc))

ClaudeLine ==
  /\ dialect = "claude" /\ pc = "loop" /\ i <= Len(lines)
  /\ \E step \in {IF IsBlank(lines[i])
                  THEN [ret |-> Pending, lac |-> last_assistant_content,
                        lmc |-> last_message_content]
                  ELSE ClaudeLineStep(lines[i], last_assistant_content,
                                      last_message_content)} :
        /\ last_assistant_content' = step.lac
        /\ last_message_content' = step.lmc
        /\ result' = step.ret
        /\ pc' = IF step.ret = Pending THEN "loop" ELSE "done"
        /\ i' = IF step.ret = Pending THEN i + 1 ELSE i
  /\ UNCHANGED <<dialect, output, lines, arg, last_summary>>

ClaudeReturn ==
  /\ dialect = "claude" /\ pc = "loop" /\ i > Len(lines)
  /\ result' = ClaudeAfterLoop(last_assistant_content, last_message_content)
  /\ pc' = "done"
  /\ UNCHANGED <<dialect, output, lines, arg, i, last_assistant_content,
                 last_message_content, last_summary>>

(***************************************************************************)
(* Adapter B: parse_codex_ndjson                                           *)
(***************************************************************************)
\* one pass of the loop body over a non-blank line: the new last_summary,
\* or Raise when an exception leaves the function
CodexLineStep(line, last) ==
  Bind(json_loads(Str(line)), LAMBDA data :
    IF data = Raise THEN last
    ELSE Bind(codex_parse_summary_from_raw(data), LAMBDA summary :
      IF summary = Raise THEN Raise
      ELSE IF Truthy(summary) THEN summary
      ELSE Bind(extract_text_from_message(Normalized(data)), LAMBDA text :
        IF text = Raise THEN Raise
        ELSE IF ~Truthy(text) THEN last
        ELSE Bind(codex_extract_json_block(text), LAMBDA json_str :
          IF json_str = Raise THEN Raise
          ELSE IF ~Truthy(json_str) THEN last
          ELSE Bind(json_loads(json_str), LAMBDA obj :
            Bind(IF obj = Raise THEN None
                 ELSE Accepted(codex_parse_summary_from_raw(obj)), LAMBDA found :
              IF found # None THEN found ELSE last))))))

CodexLine ==
  /\ dialect = "codex" /\ pc = "loop" /\ i <= Len(lines)
  /\ \E next \in {IF IsBlank(lines[i]) THEN last_summary
                  ELSE CodexLineStep(lines[i], last_summary)} :
        IF next = Raise
        THEN /\ result' = Raise
             /\ pc' = "done"
             /\ UNCHANGED <<i, last_summary>>
        ELSE /\ last_summary' = next
             /\ i' = i + 1
             /\ UNCHANGED <<pc, result>>
  /\ UNCHANGED <<dialect, output, lines, arg, last_assistant_content, last_message_content>>

CodexReturn ==
  /\ dialect = "codex" /\ pc = "loop" /\ i > Len(lines)
  /\ result' = last_summary
  /\ pc' = "done"
  /\ UNCHANGED <<dialect, output, lines, arg, i, last_assistant_content,
                 last_message_content, last_summary>>

(***************************************************************************)
(* Adapter C: parse_opencode_output                                        *)
(***************************************************************************)
\* try: data = json.loads(text); summary = parse_summary_from_raw(data)
\* except: pass -- the summary, or None
OpencodeTry(text) ==
  Bind(json_loads(text), LAMBDA data :
    IF data = Raise THEN None
    ELSE Accepted(opencode_parse_summary_from_raw(data)))

\* first tier: the whole output as one JSON value
OpencodeWhole ==
  /\ dialect = "opencode" /\ pc = "whole"
  /\ \E summary \in {OpencodeTry(Str(Strip(output)))} :
        IF summary # None
        THEN result' = summary /\ pc' = "done"
        ELSE result' = result /\ pc' = "block"
  /\ UNCHANGED <<dialect, output, lines, arg, i, last_assistant_content,
                 last_message_content, last_summary>>

\* OpencodeBlock with a slip: the second tier is passed over
OpencodeBlock_Skipped ==
  /\ dialect = "opencode" /\ pc = "block"
  /\ pc' = "loop"
  /\ UNCHANGED <<dialect, output, lines, arg, i, last_assistant_content,
                 last_message_content, last_summary, result>>

\* second tier: the block the scanner finds in the whole output
OpencodeBlock ==
  /\ dialect = "opencode" /\ pc = "block"
  /\ \E summary \in {Bind(opencode_extract_json_block(Str(output)),
                            LAMBDA json_str : IF Truthy(json_str)
                                              THEN OpencodeTry(json_str)
                                              ELSE None)} :
        IF summary # None
        THEN result' = summary /\ pc' = "done"
        ELSE result' = result /\ pc' = "loop"
  /\ UNCHANGED <<dialect, output, lines, arg, i, last_assistant_content,
                 last_message_content, last_summary>>

\* third tier: one pass of the loop over the lines
OpencodeLine ==
  /\ dialect = "opencode" /\ pc = "loop" /\ i <= Len(lines)
  /\ \E summary \in {IF IsBlank(lines[i]) THEN None
                     ELSE OpencodeTry(Str(lines[i]))} :
        IF summary # None
        THEN result' = summary /\ pc' = "done" /\ i' = i
        ELSE result' = result /\ pc' = "loop" /\ i' = i + 1
  /\ UNCHANGED <<dialect, output, lines, arg, last_assistant_content,
                 last_message_content, last_summary>>

OpencodeReturn ==
  /\ dialect = "opencode" /\ pc = "loop" /\ i > Len(lines)
  /\ result' = None
  /\ pc' = "done"
  /\ UNCHANGED <<dialect, output, lines, arg, i, last_assistant_content,
                 last_message_content, last_summary>>

(***************************************************************************)
(* Inputs: the captured output of one agent run, built from lines          *)
(***************************************************************************)
\* the most lines an input holds
MaxLines == 2

\* a string literal holding s, and the escaping that embeds a text in one
Q(s) == <<"q0">> \o s \o <<"q0">>

Escape(tok) ==
  CASE tok = "q0" -> "q1"
    [] tok = "q1" -> "q2"
    [] tok = "n0" -> "n1"
    [] tok = "n1" -> "n2"
    [] OTHER -> tok

Esc(s) == Bind(s, LAMBDA v : [k \in 1..Len(v) |-> Escape(v[k])])

W(word) == Q(<<word>>)

Field(key, val) == W(key) \o <<":">> \o val

Obj1(a) == <<"{">> \o a \o <<"}">>

Obj2(a, b) == <<"{">> \o a \o <<",">> \o b \o <<"}">>

Obj3(a, b, c) == <<"{">> \o a \o <<",">> \o b \o <<",">> \o c \o <<"}">>

Prose(s) == <<"x", " ">> \o s

Fenced(s) == <<"fence", "json", "n0">> \o s \o <<"n0", "fence">>

\* candidate summaries as JSON text
SumOk == Obj2(Field("task_id", W("t1")), Field("status", W("ok")))

SumB == Obj1(Field("status", W("b")))

SumNull == Obj2(Field("task_id", <<"null">>), Field("status", Q(<<>>)))

SumEmpty == Obj3(Field("task_id", Q(<<>>)), Field("status", Q(<<>>)),
                 Field("summary", Q(<<>>)))

SumFiles == Obj2(Field("summary", Q(<<>>)),
                 Field("files", <<"[">> \o W("a") \o <<"]">>))

\* events
AssistantMessage(content) ==
  Obj2(Field("type", W("assistant_message")), Field("content", content))

Message(content) == Obj1(Field("message", Obj1(Field("content", content))))

Delta(text) ==
  Obj2(Field("type", W("content_block_delta")),
       Field("delta", Obj1(Field("text", text))))

PartList == <<"[">> \o W("hello") \o <<",">>
            \o Obj1(Field("text", Q(Esc(SumB)))) \o <<"]">>

ClaudeCatalog ==
  { AssistantMessage(Q(Esc(Prose(SumOk)))),
    AssistantMessage(Q(Esc(SumOk))),
    AssistantMessage(Q(Esc(Q(Esc(SumOk))))),
    AssistantMessage(Q(Esc(Prose(SumNull)))),
    AssistantMessage(Q(Esc(Prose(SumB)))),
    AssistantMessage(Q(Esc(Fenced(SumOk)))),
    AssistantMessage(W("x")),
    AssistantMessage(Q(<<>>)),
    Message(Q(Esc(Prose(SumFiles)))),
    Message(PartList),
    Message(Obj1(Field("text", <<"42">>))),
    Obj1(Field("message", W("hi"))),
    Delta(Q(Esc(<<"x", "{">> \o W("status") \o <<":">>))),
    Delta(Q(Esc(W("ok") \o <<"}">>))),
    <<"42">>,
    <<"x">>,
    <<>> }

CodexCatalog ==
  { SumOk, SumB, SumNull, SumEmpty, SumFiles,
    Message(Q(Esc(Prose(SumB)))),
    Message(PartList),
    Obj1(Field("content", Q(Esc(Fenced(SumOk))))),
    Obj2(Field("status", Q(<<>>)), Field("content", Q(Esc(SumFiles)))),
    Obj1(Field("content", Obj1(Field("text", <<"42">>)))),
    Obj1(Field("message", W("hi"))),
    <<"42">>,
    <<"[", "]">>,
    W("status"),
    <<"x">>,
    <<>> }

\* an object that spans three lines and holds SumB alone on its second line
Nested ==
  <<"{">> \o Field("status", W("outer")) \o <<",">> \o W("nested")
  \o <<":", "n0">> \o SumB \o <<"n0", "}">>

OpencodeCatalog ==
  { SumOk, SumB, SumNull, SumEmpty, SumFiles,
    Prose(SumB),
    Fenced(SumOk),
    Nested,
    Message(Q(Esc(SumB))),
    <<"x", "{">>,
    <<"42">>,
    <<"[", "]">>,
    W("status"),
    <<"x">>,
    <<>> }

Catalog(d) ==
  CASE d = "claude" -> ClaudeCatalog
    [] d = "codex" -> CodexCatalog
    [] d = "opencode" -> OpencodeCatalog

\* the texts of at most n catalog entries joined by newlines
RECURSIVE Outputs(_, _)
Outputs(d, n) ==
  IF n = 1 THEN Catalog(d)
  ELSE Outputs(d, n - 1)
       \cup {a \o <<"n0">> \o b : a \in Outputs(d, n - 1), b \in Catalog(d)}

Dialects == {"claude", "codex", "opencode"}

(***************************************************************************)
(* The adapters run on an input                                            *)
(***************************************************************************)
Init ==
  /\ dialect \in Dialects
  /\ output \in Outputs(dialect, MaxLines)
  /\ lines = Lines(output)
  /\ arg = None
  /\ pc = IF dialect = "opencode" THEN "whole" ELSE "loop"
  /\ i = 1
  /\ last_assistant_content = Str(<<>>)
  /\ last_message_content = Str(<<>>)
  /\ last_summary = None
  /\ result = Pending

Next ==
  \/ ClaudeLine
  \/ ClaudeReturn
  \/ CodexLine
  \/ CodexReturn
  \/ OpencodeWhole
  \/ OpencodeBlock
  \/ OpencodeLine
  \/ OpencodeReturn

Spec == Init /\ [][Next]_vars

InitClaude == Init /\ dialect = "claude"

NextClaude == ClaudeLine \/ ClaudeReturn

SpecClaude == InitClaude /\ [][NextClaude]_vars

InitCodex == Init /\ dialect = "codex"

NextCodex == CodexLine \/ CodexReturn

SpecCodex == InitCodex /\ [][NextCodex]_vars

InitOpencode == Init /\ dialect = "opencode"

NextOpencode == OpencodeWhole \/ OpencodeBlock \/ OpencodeLine \/ OpencodeReturn

SpecOpencode == InitOpencode /\ [][NextOpencode]_vars

(***************************************************************************)
(* The components called on their own: validator, scanner, normalizer      *)
(***************************************************************************)
\* the longest brace text given to the scanner
MaxLen == 4

\* the longest list content given to the normalizer
MaxParts == 2

\* S and every dict of S with key set to one of vals
Extend(S, key, vals) == S \cup {SetKey(d, key, val) : d \in S, val \in vals}

\* decoded objects with any of the five summary fields and one other field
Candidates ==
  Extend(Extend(Extend(Extend(Extend(Extend({Dict(EmptyMap)},
    "task_id", {None, Str(<<>>), Str(<<"t1">>), Num(0)}),
    "status", {Str(<<>>), Str(<<"ok">>)}),
    "summary", {Str(<<>>), Str(<<"done">>)}),
    "files", {List(<<>>), List(<<Str(<<"a.py">>)>>)}),
    "blockers", {List(<<>>), List(<<Str(<<"b">>)>>)}),
    "elapsed", {Num(42)})

\* decoded values that are not objects
NonObjects ==
  {None, Num(42), Str(<<"x">>), Str(<<"status">>), List(<<>>),
   List(<<Str(<<"files">>)>>)}

\* texts over braces and one other token, up to n tokens long
RECURSIVE BraceTexts(_)
BraceTexts(n) ==
  IF n = 0 THEN {<<>>}
  ELSE BraceTexts(n - 1)
       \cup {Append(t, c) : t \in {u \in BraceTexts(n - 1) : Len(u) = n - 1},
                            c \in {"{", "}", "x"}}

\* one object without inner braces, in prose and fences
Befores ==
  {<<>>, <<" ">>, <<"x", " ">>, <<"fence", "json", "n0">>, <<"fence", "n0">>,
   <<"x", "n0", "fence", "json", "n0">>}

Bodies ==
  {<<"{", "}">>, Obj1(Field("a", <<"42">>)), SumOk,
   Obj1(Field("k", Q(<<"a", "n1", "b">>))),
   Obj1(Field("k", Q(<<"a", "q1", "b">>)))}

Afters ==
  {<<>>, <<"n0">>, <<" ", "x">>, <<"n0", "fence">>, <<"n0", "fence", "n0", "x">>}

SingleObjectTexts ==
  {a \o b \o c : a \in Befores, b \in Bodies, c \in Afters}
  \cup {Q(Esc(Prose(SumOk))), Q(Esc(SumOk))}

ScanArgs ==
  {Str(t) : t \in SingleObjectTexts \cup BraceTexts(MaxLen)}
  \cup {None, Num(42), Dict(EmptyMap)}

\* the parts of a list content, and the lists of at most n of them
PartChoices ==
  {Str(<<"hello">>), Str(<<>>), Num(42),
   Dict(<<"text">> :> Str(<<"world">>)), Dict(<<"text">> :> Str(<<>>)),
   Dict(<<"text">> :> Num(42)), Dict(<<"other">> :> Str(<<"x">>))}

RECURSIVE PartLists(_)
PartLists(n) ==
  IF n = 0 THEN {<<>>}
  ELSE PartLists(n - 1)
       \cup {Append(l, part) : l \in {u \in PartLists(n - 1) : Len(u) = n - 1},
                               part \in PartChoices}

FourParts ==
  <<Str(<<"hello">>), Dict(<<"text">> :> Str(<<"world">>)),
    Dict(<<"text">> :> Str(<<>>)), Num(42)>>

Contents ==
  {Str(<<"hello">>), Str(<<>>), None, Num(42), Dict(EmptyMap),
   Dict(<<"text">> :> Str(<<"world">>)), Dict(<<"text">> :> Num(42)),
   Dict(<<"other">> :> Str(<<"x">>)), List(FourParts)}
  \cup {List(l) : l \in PartLists(MaxParts)}

\* decoded events: content at the top, under message, or both; no content;
\* a message that is not an object; values that are not objects
Events ==
  {Dict(<<"content">> :> c) : c \in Contents}
  \cup {Dict(<<"message">> :> Dict(<<"content">> :> c)) : c \in Contents}
  \cup {Dict((<<"message">> :> Dict(<<"content">> :> c))
             @@ (<<"content">> :> Str(<<"top">>))) : c \in Contents}
  \cup {Dict(EmptyMap), Dict(<<"message">> :> Dict(EmptyMap)),
        Dict(<<"message">> :> Str(<<"hi">>)), Dict(<<"message">> :> None)}
  \cup NonObjects

Args(fn) ==
  CASE fn = "validate" -> Candidates \cup NonObjects
    [] fn = "scan" -> ScanArgs
    [] fn = "normalize" -> Events

\* the copy of each component in the parser of dialect d
Validator(d, raw) ==
  CASE d = "claude" -> parse_summary_from_line(raw)
    [] d = "codex" -> codex_parse_summary_from_raw(raw)
    [] d = "opencode" -> opencode_parse_summary_from_raw(raw)

Scanner(d, text) ==
  CASE d = "claude" -> claude_extract_json_block(text)
    [] d = "codex" -> codex_extract_json_block(text)
    [] d = "opencode" -> opencode_extract_json_block(text)

InitFn ==
  /\ pc \in {"validate", "scan", "normalize"}
  /\ dialect \in IF pc = "normalize" THEN {"claude", "codex"} ELSE Dialects
  /\ arg \in Args(pc)
  /\ output = <<>>
  /\ lines = <<>>
  /\ i = 1
  /\ last_assistant_content = Str(<<>>)
  /\ last_message_content = Str(<<>>)
  /\ last_summary = None
  /\ result = Pending

Validate ==
  /\ pc = "validate"
  /\ result' = Validator(dialect, arg)
  /\ pc' = "validated"
  /\ UNCHANGED <<dialect, output, lines, arg, i, last_assistant_content,
                 last_message_content, last_summary>>

Scan ==
  /\ pc = "scan"
  /\ result' = Scanner(dialect, arg)
  /\ pc' = "scanned"
  /\ UNCHANGED <<dialect, output, lines, arg, i, last_assistant_content,
                 last_message_content, last_summary>>

Normalize ==
  /\ pc = "normalize"
  /\ result' = extract_text_from_message(arg)
  /\ pc' = "normalized"
  /\ UNCHANGED <<dialect, output, lines, arg, i, last_assistant_content,
                 last_message_content, last_summary>>

NextFn == Validate \/ Scan \/ Normalize

SpecFn == InitFn /\ [][NextFn]_vars

(***************************************************************************)
(* The contract, stated apart from the code                                *)
(***************************************************************************)
\* at least one of the five recognized keys is present
AnyKey(obj) == \E key \in SummaryKeys : HasKey(obj, key)

\* at least one of the five recognized fields carries content
AnyTruthy(obj) == \E key \in SummaryKeys : HasKey(obj, key) /\ Truthy(obj.map[<<key>>])

\* the Summary Validator of the contract: an object with content in a
\* recognized field, its missing or null identifier made the empty string
AsSummary(obj) ==
  IF IsDict(obj) /\ AnyTruthy(obj)
  THEN (IF Get(obj, "task_id", None) = None
        THEN SetKey(obj, "task_id", Str(<<>>)) ELSE obj)
  ELSE None

\* decode a block and validate it; a block that does not decode is absent
DecodeSummary(block) ==
  IF IsStr(block) /\ Truthy(block) THEN AsSummary(json_loads(block)) ELSE None

\* the least and the greatest element of a set of numbers
Least(S) == CHOOSE x \in S : \A y \in S : x <= y

Greatest(S) == CHOOSE x \in S : \A y \in S : x >= y

ThreeEmpty ==
  Dict((<<"task_id">> :> Str(<<>>)) @@ (<<"status">> :> Str(<<>>))
       @@ (<<"summary">> :> Str(<<>>)))

ThreeEmptyWithFiles == SetKey(ThreeEmpty, "files", List(<<Str(<<"a.py">>)>>))

\* C5: in every dialect the validator accepts a decoded object exactly when
\* it has one of the keys task_id, status, summary, files, blockers and one
\* of those five fields is truthy; an object with none of the keys is never
\* accepted, {task_id:"", status:"", summary:""} is rejected and the same
\* object with files:["a.py"] is accepted.
C5_ValidatorAcceptance ==
  (pc = "validated" /\ IsDict(arg)) =>
    /\ IsDict(result) \/ result = None
    /\ IsDict(result) <=> (AnyKey(arg) /\ AnyTruthy(arg))
    /\ ~AnyKey(arg) => result = None
    /\ arg = ThreeEmpty => result = None
    /\ arg = ThreeEmptyWithFiles => IsDict(result)

C5_Witness ==
  pc = "validated" /\ arg = ThreeEmptyWithFiles /\ IsDict(result)

\* C6: every object the validator accepts, in every dialect, has task_id ""
\* when the candidate had no task_id key and when it had task_id null; a
\* task_id that is not null is left as supplied; every other field keeps its
\* value and no field is added or dropped.
C6_NullIdentifier ==
  (pc = "validated" /\ IsDict(arg) /\ IsDict(result)) =>
    /\ ~HasKey(arg, "task_id") => Get(result, "task_id", None) = Str(<<>>)
    /\ (HasKey(arg, "task_id") /\ arg.map[<<"task_id">>] = None)
         => Get(result, "task_id", None) = Str(<<>>)
    /\ (HasKey(arg, "task_id") /\ arg.map[<<"task_id">>] # None)
         => Get(result, "task_id", None) = arg.map[<<"task_id">>]
    /\ DOMAIN result.map = DOMAIN arg.map \cup {<<"task_id">>}
    /\ \A k \in DOMAIN arg.map \ {<<"task_id">>} : result.map[k] = arg.map[k]

C6_Witness ==
  /\ pc = "validated" /\ IsDict(arg) /\ IsDict(result)
  /\ ~HasKey(arg, "task_id") /\ HasKey(arg, "elapsed")
  /\ result.map[<<"task_id">>] = Str(<<>>)

\* the three tiers of Adapter C
Tier1(out) == DecodeSummary(Str(Strip(out)))

Tier2(out) == DecodeSummary(opencode_extract_json_block(Str(out)))

Tier3(ls) ==
  LET valid == {k \in 1..Len(ls) : DecodeSummary(Str(ls[k])) # None}
  IN IF valid = {} THEN None ELSE DecodeSummary(Str(ls[Least(valid)]))

\* C4: parse_opencode_output returns the result of the lowest-numbered tier
\* that succeeds (1: the whole blob decoded and validated; 2: the scanner's
\* block of the whole blob decoded and validated; 3: the first line whose
\* event validates), absence when none does, and a tier is entered only
\* after every tier above it has failed.
C4_TierPrecedence ==
  dialect = "opencode" =>
    /\ pc = "done" =>
         result = IF Tier1(output) # None THEN Tier1(output)
                  ELSE IF Tier2(output) # None THEN Tier2(output)
                  ELSE Tier3(lines)
    /\ pc \in {"block", "loop"} => Tier1(output) = None
    /\ pc = "loop" => Tier2(output) = None

\* the whole blob validates and a line of it holds a different valid summary
C4_Witness ==
  /\ dialect = "opencode" /\ pc = "done"
  /\ Tier1(output) # None /\ result = Tier1(output)
  /\ Tier3(lines) # None /\ Tier3(lines) # Tier1(output)

\* C2: each of the three adapters ends, on every input, with a summary or
\* with absence; a line or block that does not decode, decodes to a value
\* that is not an object, or carries a field of an unexpected type never
\* surfaces as an uncaught error.
C2_NoFatalErrors == pc = "done" => (IsDict(result) \/ result = None)

\* C10: every object an adapter returns satisfies the validator's acceptance
\* condition and has a task_id that is not null.
C10_ValidatedSummary ==
  (pc = "done" /\ IsDict(result)) =>
    /\ AnyTruthy(result)
    /\ HasKey(result, "task_id")
    /\ Get(result, "task_id", None) # None

\* the text of an event as the contract's Content Normalizer gives it: the
\* empty string when nothing is extractable
TextOf(event) ==
  LET text == extract_text_from_message(event)
  IN IF IsStr(text) THEN text ELSE Str(<<>>)

\* the summary a line of Adapter B yields: the event itself when it
\* validates, else the block found in its message text; None when neither
\* does, or when the line is blank or does not decode
CodexYield(line) ==
  LET data == json_loads(Str(line))
  IN IF data = Raise THEN None
     ELSE IF AsSummary(data) # None THEN AsSummary(data)
     ELSE DecodeSummary(codex_extract_json_block(TextOf(data)))

\* C3: parse_codex_ndjson processes every line and returns the summary of
\* the last line that yields one, directly or through its message text, and
\* absence exactly when no line yields one.
C3_LastWins ==
  (dialect = "codex" /\ pc = "done") =>
    LET valid == {k \in 1..Len(lines) : CodexYield(lines[k]) # None}
    IN result = IF valid = {} THEN None ELSE CodexYield(lines[Greatest(valid)])

\* an assistant_message content after the optional double-decode: the
\* decoded string when the content is a JSON-encoded string
DoubleDecoded(content) ==
  LET inner == json_loads(content)
  IN IF IsStr(inner) THEN inner ELSE content

\* the object on which Adapter A short-circuits at a line, None when the
\* line is no assistant_message whose content holds an object with both
\* task_id and status
ShortCircuitObject(line) ==
  LET data == json_loads(Str(line))
      content == Get(data, "content", Str(<<>>))
      block == codex_extract_json_block(DoubleDecoded(content))
      obj == json_loads(block)
  IN IF IsDict(data) /\ Get(data, "type", None) = Str(<<"assistant_message">>)
        /\ IsStr(content) /\ IsStr(block) /\ IsDict(obj)
        /\ HasKey(obj, "task_id") /\ HasKey(obj, "status")
     THEN obj ELSE None

\* C1: when the loop of parse_claude_stream_json reaches an assistant_message
\* line whose content holds an object with both task_id and status, the
\* adapter returns that object at that line and reads no later line.
C1_ShortCircuit ==
  [][(dialect = "claude" /\ pc = "loop" /\ i <= Len(lines)
      /\ ShortCircuitObject(lines[i]) # None)
     => (pc' = "done" /\ i' = i /\ result' = ShortCircuitObject(lines[i]))]_vars

\* the assistant-content fallback: the content of the first assistant_message
\* with content
AssistantFallback(ls) ==
  LET content(k) == Get(json_loads(Str(ls[k])), "content", Str(<<>>))
      has == {k \in 1..Len(ls) :
                /\ IsDict(json_loads(Str(ls[k])))
                /\ Get(json_loads(Str(ls[k])), "type", None) = Str(<<"assistant_message">>)
                /\ Truthy(content(k))}
  IN IF has = {} THEN Str(<<>>) ELSE DoubleDecoded(content(Least(has)))

\* the texts of the content_block_delta events of ls[from..], in line order
RECURSIVE DeltaTexts(_, _)
DeltaTexts(ls, from) ==
  IF from > Len(ls) THEN <<>>
  ELSE LET data == json_loads(Str(ls[from]))
           delta == Get(data, "delta", None)
           here == IF IsDict(data)
                      /\ Get(data, "type", None) = Str(<<"content_block_delta">>)
                      /\ IsDict(delta) /\ HasKey(delta, "text")
                      /\ IsStr(delta.map[<<"text">>])
                   THEN delta.map[<<"text">>].s ELSE <<>>
       IN here \o DeltaTexts(ls, from + 1)

\* the full-message fallback: the text of the last event with a non-empty
\* message, then the delta texts from that line on
MessageFallback(ls) ==
  LET has == {k \in 1..Len(ls) :
                /\ IsDict(json_loads(Str(ls[k])))
                /\ HasKey(json_loads(Str(ls[k])), "message")
                /\ Truthy(TextOf(json_loads(Str(ls[k]))))}
  IN IF has = {} THEN Str(DeltaTexts(ls, 1))
     ELSE Str(TextOf(json_loads(Str(ls[Greatest(has)]))).s
              \o DeltaTexts(ls, Greatest(has)))

\* C9: when parse_claude_stream_json reaches the end of the input without a
\* short-circuit return, it returns the validated block of the
\* assistant-content fallback, else the validated block of the full-message
\* fallback, else absence.
C9_FallbackOrder ==
  (dialect = "claude" /\ pc = "done" /\ i > Len(lines)) =>
    LET first == DecodeSummary(codex_extract_json_block(AssistantFallback(lines)))
        second == DecodeSummary(codex_extract_json_block(MessageFallback(lines)))
    IN result = IF first # None THEN first ELSE second

\* the one object of a text that holds a single opening brace, before a
\* single closing brace
SingleObject(s) ==
  IF Len(SelectSeq(s, LAMBDA c : c = "{")) = 1
     /\ Len(SelectSeq(s, LAMBDA c : c = "}")) = 1
     /\ Find(s, "{") < Find(s, "}")
  THEN Slice(s, Find(s, "{"), Find(s, "}")) ELSE <<>>

\* the nesting depth after s[1..k]
RECURSIVE Depth(_, _)
Depth(s, k) ==
  IF k = 0 THEN 0
  ELSE Depth(s, k - 1) + (IF s[k] = "{" THEN 1 ELSE IF s[k] = "}" THEN -1 ELSE 0)

\* the first balanced object of s from its first opening brace, <<>> when
\* the depth never returns to zero
FirstBalanced(s) ==
  LET start == Find(s, "{")
      back == {k \in start..Len(s) : start >= 1 /\ Depth(s, k) = Depth(s, start - 1)}
  IN IF back = {} THEN <<>> ELSE Slice(s, start, Least(back))

\* C7: in each of the three copies extract_json_block returns, for a text
\* that holds a single object without inner braces, exactly the span of that
\* object whatever prose or fence surrounds it; for a text without fence
\* that is not itself enclosed in braces, the first balanced object from the
\* first opening brace, and absence when the depth never returns to zero.
C7_BraceBalance ==
  (pc = "scanned" /\ IsStr(arg)) =>
    LET s == Strip(arg.s)
    IN /\ SingleObject(s) # <<>> => result = Str(SingleObject(s))
       /\ (~HasFence(s) /\ ~(s # <<>> /\ s[1] = "{" /\ s[Len(s)] = "}"))
            => IF FirstBalanced(s) # <<>> THEN result = Str(FirstBalanced(s))
               ELSE ~Truthy(result) /\ result # Raise

\* C8: extract_text_from_message returns a single string for every decoded
\* event (here: every event that is an object) and never raises: a string content as it is, the text field of an
\* object content, the non-empty string parts and non-empty text fields of a
\* list content joined by newlines in list order, the empty string when
\* nothing is extractable.
C8_NormalizerTotal ==
  (pc = "normalized" /\ IsDict(arg)) =>
    /\ IsStr(result)
    /\ arg = Dict(<<"content">> :> List(FourParts))
         => result = Str(<<"hello", "n0", "world">>)

====
